---- MODULE Spec2Model ----
(***************************************************************************)
(* Model of Catalyst's LightningKokkosSimulator                            *)
(* (runtime/lib/backend/lightning/lightning_kokkos/                        *)
(* LightningKokkosSimulator.cpp).                                          *)
(*                                                                         *)
(* The simulator object owns a state vector (device_sv), a qubit manager,  *)
(* an observable manager, a cache manager (the tape), the tape_recording   *)
(* flag and device_shots.  Every public method is one action; `res` holds  *)
(* what the last call returned or the message of the exception it threw.   *)
(*                                                                         *)
(* Numbers.  Amplitudes are kept exactly: a state vector of n qubits is a  *)
(* function 0..2^n-1 -> Int that stands for the unit vector obtained by    *)
(* dividing by the square root of the sum of the squares; it is kept       *)
(* reduced by the gcd of its entries, so that equal states have equal      *)
(* representations.  The probability of basis state i is                   *)
(* amp[i]^2 / Mass(amp).  A vector whose entries are NaN (0/0 after a      *)
(* collapse onto zero mass) is flagged by nan.  Angles are integer         *)
(* multiples of pi/2, draws are integer multiples of 1/DrawDen.            *)
(* Wire w of an n-qubit register is bit n-1-w of the amplitude index.      *)
(***************************************************************************)
EXTENDS Integers, Sequences, FiniteSets, TLC

VARIABLES device_sv, qubits_map, next_idx, tape_recording, cache_manager,
          obs_manager, device_shots, res, hist

vars == <<device_sv, qubits_map, next_idx, tape_recording, cache_manager,
          obs_manager, device_shots, res, hist>>

\* What a failing call must leave alone.
simState == <<device_sv, qubits_map, next_idx, tape_recording, cache_manager,
              obs_manager, device_shots>>

(***************************************************************************)
(* Bounds of the model.                                                    *)
(***************************************************************************)
MaxQubits == 2
MaxIds == 3
MaxTapeOps == 2
MaxTapeObs == 2
MaxObs == 2
MaxShots == 1
DrawDen == 2

(***************************************************************************)
(* Arithmetic helpers.                                                     *)
(***************************************************************************)
Abs(x) == IF x < 0 THEN -x ELSE x

RECURSIVE Gcd(_, _)
Gcd(a, b) == IF b = 0 THEN a ELSE Gcd(b, a % b)

RECURSIVE SeqSum(_)
SeqSum(s) == IF s = <<>> THEN 0 ELSE Head(s) + SeqSum(Tail(s))

RECURSIVE GcdAll(_, _)
GcdAll(f, k) == IF k < 0 THEN 0 ELSE Gcd(Abs(f[k]), GcdAll(f, k - 1))

RECURSIVE SumSq(_, _)
SumSq(f, k) == IF k < 0 THEN 0 ELSE f[k] * f[k] + SumSq(f, k - 1)

\* Bit of wire w in amplitude index i of an n-qubit register.
BitOf(i, n, w) == (i \div (2 ^ (n - 1 - w))) % 2

\* Index i with the bit of wire w flipped.
FlipBit(i, n, w) ==
    IF BitOf(i, n, w) = 0 THEN i + 2 ^ (n - 1 - w) ELSE i - 2 ^ (n - 1 - w)

Mass(amp, n) == SumSq(amp, 2 ^ n - 1)

\* The representative of the ray of amp: divided by the gcd of its entries.
Reduce(amp, n) ==
    LET g == GcdAll(amp, 2 ^ n - 1)
    IN  IF g = 0 THEN amp ELSE [i \in 0 .. 2 ^ n - 1 |-> amp[i] \div g]

(***************************************************************************)
(* StateVectorT.                                                           *)
(***************************************************************************)
\* StateVectorT(num_qubits): the basis state |0...0>.
NewStateVector(n) ==
    [n |-> n, nan |-> FALSE, amp |-> [i \in 0 .. 2 ^ n - 1 |-> IF i = 0 THEN 1 ELSE 0]]

\* A one-qubit gate <<a, b, c, d>> (rows (a b), (c d)) on wire w.
ApplyOneQubit(amp, n, w, m) ==
    [i \in 0 .. 2 ^ n - 1 |->
        IF BitOf(i, n, w) = 0
        THEN m[1] * amp[i] + m[2] * amp[FlipBit(i, n, w)]
        ELSE m[3] * amp[FlipBit(i, n, w)] + m[4] * amp[i]]

\* CNOT with control c and target t.
ApplyCNOT(amp, n, c, t) ==
    [i \in 0 .. 2 ^ n - 1 |->
        IF BitOf(i, n, c) = 1 THEN amp[FlipBit(i, n, t)] ELSE amp[i]]

Transpose2(m) == <<m[1], m[3], m[2], m[4]>>

\* RY(theta) for theta = k*pi/2, up to the positive factor 1/sqrt(2).
RYMatrix(k) ==
    CASE k % 4 = 0 -> <<1, 0, 0, 1>>
      [] k % 4 = 1 -> <<1, -1, 1, 1>>
      [] k % 4 = 2 -> <<0, -1, 1, 0>>
      [] k % 4 = 3 -> <<-1, -1, 1, -1>>


(***************************************************************************)
(* Lightning::simulator_gate_info and Lightning::lookup_gates: the gates   *)
(* the model draws from, with their <<number of wires, number of params>>. *)
(***************************************************************************)
simulator_gate_info ==
    [name \in {"PauliX", "Hadamard", "RY", "CNOT"} |->
        CASE name = "PauliX" -> <<1, 0>>
          [] name = "Hadamard" -> <<1, 0>>
          [] name = "RY" -> <<1, 1>>
          [] name = "CNOT" -> <<2, 0>>]

IsSupportedGate(name) == name \in DOMAIN simulator_gate_info

lookup_gates(name) == simulator_gate_info[name]

NoRepeats(s) == \A i, j \in 1 .. Len(s) : i # j => s[i] # s[j]

\* The gate `name` applied on its declared number of leading wires.
GateOnWires(sv, name, w, inverse, params) ==
    LET n == sv.n
        a == sv.amp
        b == CASE name = "PauliX" -> ApplyOneQubit(a, n, w[1], <<0, 1, 1, 0>>)
               [] name = "Hadamard" -> ApplyOneQubit(a, n, w[1], <<1, 1, 1, -1>>)
               [] name = "RY" ->
                    ApplyOneQubit(a, n, w[1],
                        IF inverse THEN Transpose2(RYMatrix(params[1]))
                        ELSE RYMatrix(params[1]))
               [] name = "CNOT" -> ApplyCNOT(a, n, w[1], w[2])
    IN  IF sv.nan THEN sv ELSE [sv EXCEPT !.amp = Reduce(b, n)]

\* StateVectorT::applyOperation(name, dev_wires, inverse, params): the set of
\* outcomes of the kernel.  Within its contract (as many distinct wires as the
\* gate acts on) it returns the new state.  Outside it, the kernel either
\* throws or acts on the leading wires it reads.
applyOperation(sv, name, dev_wires, inverse, params) ==
    LET arity == lookup_gates(name)[1]
        lead == SubSeq(dev_wires, 1, arity)
        usable == Len(dev_wires) >= arity /\ NoRepeats(lead)
        applied == [ok |-> TRUE, sv |-> GateOnWires(sv, name, lead, inverse, params)]
    IN  IF Len(dev_wires) = arity /\ usable
        THEN {applied}
        ELSE {[ok |-> FALSE, sv |-> sv]} \cup (IF usable THEN {applied} ELSE {})

\* StateVectorT::applyMultiQubitOp with a 2x2 matrix on one wire.
applyMultiQubitOp(sv, matrix, dev_wires, inverse) ==
    IF sv.nan THEN sv
    ELSE [sv EXCEPT !.amp =
            Reduce(ApplyOneQubit(sv.amp, sv.n, dev_wires[1],
                                 IF inverse THEN Transpose2(matrix) ELSE matrix), sv.n)]

(***************************************************************************)
(* QubitManager: program qubit ids -> device wires.                        *)
(***************************************************************************)
isValidQubitId(map, q) == q \in DOMAIN map

isValidQubits(map, wires) == \A i \in 1 .. Len(wires) : isValidQubitId(map, wires[i])

\* getDeviceWires: defined when every id is valid (it throws otherwise).
getDeviceWires(map, wires) == [i \in 1 .. Len(wires) |-> map[wires[i]]]

\* QubitManager::Allocate(s_idx): the next id, mapped to wire s_idx.
QM_Allocate(map, next, s_idx) ==
    [q \in DOMAIN map \cup {next} |-> IF q = next THEN s_idx ELSE map[q]]

\* QubitManager::AllocateRange over the wires first .. last-1.
RECURSIVE QM_AllocateRange(_, _, _, _)
QM_AllocateRange(map, next, first, last) ==
    IF first >= last THEN map
    ELSE QM_AllocateRange(QM_Allocate(map, next, first), next + 1, first + 1, last)

\* QubitManager::Release(q): erase q, shift down the wire of every later id.
QM_Release(map, q) ==
    [p \in DOMAIN map \ {q} |-> IF p > q THEN map[p] - 1 ELSE map[p]]

EmptyMap == [q \in {} |-> 0]

(***************************************************************************)
(* CacheManager: the tape.                                                 *)
(***************************************************************************)
EmptyCache == [ops |-> <<>>, obs_keys |-> <<>>, obs_callees |-> <<>>, num_params |-> 0]

\* CacheManager::addOperation
addOperation(c, name, params, dev_wires, inverse) ==
    [c EXCEPT !.ops = Append(@, [name |-> name, params |-> params,
                                 wires |-> dev_wires, inverse |-> inverse]),
              !.num_params = @ + Len(params)]

\* CacheManager::addObservable
addObservable(c, key, callee) ==
    [c EXCEPT !.obs_keys = Append(@, key), !.obs_callees = Append(@, callee)]

getNumOperations(c) == Len(c.ops)
getNumObservables(c) == Len(c.obs_keys)
getNumParams(c) == c.num_params

(***************************************************************************)
(* ObsManager: observables by key; the key is the position of creation.    *)
(***************************************************************************)
isValidObservables(om, key) == key >= 0 /\ key < Len(om)

\* An observable of the registry: a named or Hermitian one acts on wires, a
\* tensor product and a Hamiltonian refer to the keys of earlier observables.
ObsEntry(id, wires, coeffs, obs) ==
    [id |-> id, wires |-> wires, coeffs |-> coeffs, obs |-> obs]

createNamedObs(om, id, dev_wires) == Append(om, ObsEntry(id, dev_wires, <<>>, <<>>))

\* The registries createTensorProdObs can leave; the registry itself stands
\* for a failure.  Keys that are not in the registry are outside its
\* contract: it may fail or store the entry.
createTensorProdObs(om, obs) ==
    {Append(om, ObsEntry("TensorProd", <<>>, <<>>, obs))}
    \cup (IF \A i \in 1 .. Len(obs) : isValidObservables(om, obs[i]) THEN {} ELSE {om})

\* As createTensorProdObs; a list of coefficients of another length than the
\* list of keys is outside the contract as well.
createHamiltonianObs(om, coeffs, obs) ==
    {Append(om, ObsEntry("Hamiltonian", <<>>, coeffs, obs))}
    \cup (IF /\ Len(coeffs) = Len(obs)
              /\ \A i \in 1 .. Len(obs) : isValidObservables(om, obs[i])
           THEN {} ELSE {om})

(***************************************************************************)
(* Results of calls.                                                       *)
(***************************************************************************)
Ok(op, args, out) == [op |-> op, args |-> args, ok |-> TRUE, err |-> "", out |-> out]
Fail(op, args, msg) == [op |-> op, args |-> args, ok |-> FALSE, err |-> msg, out |-> <<>>]

SeqsUpTo(S, k) == UNION {[1 .. m -> S] : m \in 0 .. k}

QubitIds == 0 .. MaxIds - 1
WireLists == SeqsUpTo(QubitIds, 2)

(***************************************************************************)
(* History.  hist is what a client that only sees the calls and their      *)
(* results knows: how many qubits it asked for since the last              *)
(* ReleaseAllQubits, whether it is between a successful StartTapeRecording *)
(* and the next successful StopTapeRecording, and how many operations      *)
(* succeeded in that window.  It is not read by any call.                  *)
(***************************************************************************)
Observe(h, r) ==
    CASE r.op = "StartTapeRecording" /\ r.ok -> [h EXCEPT !.rec = TRUE, !.ops = 0]
      [] r.op = "StopTapeRecording" /\ r.ok -> [h EXCEPT !.rec = FALSE]
      [] r.op \in {"NamedOperation", "MatrixOperation"} /\ r.ok /\ h.rec ->
            [h EXCEPT !.ops = @ + 1]
      [] r.op = "AllocateQubit" /\ r.ok -> [h EXCEPT !.allocated = @ + 1]
      [] r.op = "AllocateQubits" /\ r.ok -> [h EXCEPT !.allocated = @ + r.args[1]]
      [] r.op = "ReleaseAllQubits" /\ r.ok -> [h EXCEPT !.allocated = 0]
      [] OTHER -> h

(***************************************************************************)
(* Construction.                                                           *)
(***************************************************************************)
Init ==
    /\ device_sv = NewStateVector(0)
    /\ qubits_map = EmptyMap
    /\ next_idx = 0
    /\ tape_recording = FALSE
    /\ cache_manager = EmptyCache
    /\ obs_manager = <<>>
    /\ device_shots = 0
    /\ res = Ok("Init", <<>>, <<>>)
    /\ hist = [allocated |-> 0, rec |-> FALSE, ops |-> 0]

(***************************************************************************)
(* Qubit allocation and release.                                           *)
(***************************************************************************)
GetNumQubits == device_sv.n

AllocateQubit ==
    /\ device_sv.n < MaxQubits
    /\ next_idx < MaxIds
    /\ LET num_qubits == device_sv.n
       IN  /\ device_sv' = NewStateVector(num_qubits + 1)
           /\ qubits_map' = QM_Allocate(qubits_map, next_idx, num_qubits)
           /\ next_idx' = next_idx + 1
           /\ res' = Ok("AllocateQubit", <<>>, <<next_idx>>)
    /\ hist' = Observe(hist, res')
    /\ UNCHANGED <<tape_recording, cache_manager, obs_manager, device_shots>>

\* AllocateQubits that sizes the new state vector by the request alone.
AllocateQubits_IgnoresCurrent(num_qubits) ==
    /\ device_sv.n + num_qubits <= MaxQubits
    /\ next_idx + num_qubits <= MaxIds
    /\ IF num_qubits = 0
       THEN /\ res' = Ok("AllocateQubits", <<num_qubits>>, <<>>)
            /\ UNCHANGED <<device_sv, qubits_map, next_idx>>
       ELSE /\ device_sv' = NewStateVector(num_qubits)
            /\ qubits_map' = QM_AllocateRange(qubits_map, next_idx,
                                              device_sv.n, device_sv.n + num_qubits)
            /\ next_idx' = next_idx + num_qubits
            /\ res' = Ok("AllocateQubits", <<num_qubits>>,
                         [i \in 1 .. num_qubits |-> next_idx + i - 1])
    /\ hist' = Observe(hist, res')
    /\ UNCHANGED <<tape_recording, cache_manager, obs_manager, device_shots>>

AllocateQubits(num_qubits) ==
    /\ device_sv.n + num_qubits <= MaxQubits
    /\ next_idx + num_qubits <= MaxIds
    /\ IF num_qubits = 0
       THEN /\ res' = Ok("AllocateQubits", <<num_qubits>>, <<>>)
            /\ UNCHANGED <<device_sv, qubits_map, next_idx>>
       ELSE LET cur_num_qubits == device_sv.n
                new_num_qubits == cur_num_qubits + num_qubits
            IN  /\ device_sv' = NewStateVector(new_num_qubits)
                /\ qubits_map' = QM_AllocateRange(qubits_map, next_idx,
                                                  cur_num_qubits, new_num_qubits)
                /\ next_idx' = next_idx + num_qubits
                /\ res' = Ok("AllocateQubits", <<num_qubits>>,
                             [i \in 1 .. num_qubits |-> next_idx + i - 1])
    /\ hist' = Observe(hist, res')
    /\ UNCHANGED <<tape_recording, cache_manager, obs_manager, device_shots>>

ReleaseQubit(q) ==
    /\ IF isValidQubitId(qubits_map, q)
       THEN /\ qubits_map' = QM_Release(qubits_map, q)
            /\ res' = Ok("ReleaseQubit", <<q>>, <<>>)
       ELSE /\ res' = Fail("ReleaseQubit", <<q>>, "Invalid simulator qubit index")
            /\ UNCHANGED qubits_map
    /\ hist' = Observe(hist, res')
    /\ UNCHANGED <<device_sv, next_idx, tape_recording, cache_manager, obs_manager,
                   device_shots>>

ReleaseAllQubits ==
    /\ qubits_map' = EmptyMap
    /\ device_sv' = NewStateVector(0)
    /\ res' = Ok("ReleaseAllQubits", <<>>, <<>>)
    /\ hist' = Observe(hist, res')
    /\ UNCHANGED <<next_idx, tape_recording, cache_manager, obs_manager, device_shots>>

(***************************************************************************)
(* Tape recording.                                                         *)
(***************************************************************************)
\* StartTapeRecording that resets the cache before it checks the flag.
StartTapeRecording_ResetFirst ==
    /\ cache_manager' = EmptyCache
    /\ IF tape_recording
       THEN /\ res' = Fail("StartTapeRecording", <<>>, "Cannot re-activate the cache manager")
            /\ UNCHANGED tape_recording
       ELSE /\ tape_recording' = TRUE
            /\ res' = Ok("StartTapeRecording", <<>>, <<>>)
    /\ hist' = Observe(hist, res')
    /\ UNCHANGED <<device_sv, qubits_map, next_idx, obs_manager, device_shots>>

StartTapeRecording ==
    /\ IF tape_recording
       THEN /\ res' = Fail("StartTapeRecording", <<>>, "Cannot re-activate the cache manager")
            /\ UNCHANGED <<tape_recording, cache_manager>>
       ELSE /\ tape_recording' = TRUE
            /\ cache_manager' = EmptyCache
            /\ res' = Ok("StartTapeRecording", <<>>, <<>>)
    /\ hist' = Observe(hist, res')
    /\ UNCHANGED <<device_sv, qubits_map, next_idx, obs_manager, device_shots>>

\* StopTapeRecording that reports success and leaves the flag set.
StopTapeRecording_KeepsRecording ==
    /\ IF ~tape_recording
       THEN res' = Fail("StopTapeRecording", <<>>,
                        "Cannot stop an already stopped cache manager")
       ELSE res' = Ok("StopTapeRecording", <<>>, <<>>)
    /\ hist' = Observe(hist, res')
    /\ UNCHANGED simState

StopTapeRecording ==
    /\ IF ~tape_recording
       THEN /\ res' = Fail("StopTapeRecording", <<>>,
                           "Cannot stop an already stopped cache manager")
            /\ UNCHANGED tape_recording
       ELSE /\ tape_recording' = FALSE
            /\ res' = Ok("StopTapeRecording", <<>>, <<>>)
    /\ hist' = Observe(hist, res')
    /\ UNCHANGED <<device_sv, qubits_map, next_idx, cache_manager, obs_manager,
                   device_shots>>

CacheManagerInfo ==
    /\ res' = Ok("CacheManagerInfo", <<>>,
                 <<getNumOperations(cache_manager), getNumObservables(cache_manager),
                   getNumParams(cache_manager)>>)
    /\ hist' = Observe(hist, res')
    /\ UNCHANGED simState

SetDeviceShots(shots) ==
    /\ device_shots' = shots
    /\ res' = Ok("SetDeviceShots", <<shots>>, <<>>)
    /\ hist' = Observe(hist, res')
    /\ UNCHANGED <<device_sv, qubits_map, next_idx, tape_recording, cache_manager,
                   obs_manager>>


(***************************************************************************)
(* Operations.                                                             *)
(***************************************************************************)
TapeHasRoomForOp == ~tape_recording \/ Len(cache_manager.ops) < MaxTapeOps
TapeHasRoomForObs == ~tape_recording \/ Len(cache_manager.obs_keys) < MaxTapeObs

NamedOperationArgs(name, params, wires) == <<name, Len(wires), Len(params)>>

NamedOperation(name, params, wires, inverse) ==
    LET args == NamedOperationArgs(name, params, wires)
        fails(msg) == /\ res' = Fail("NamedOperation", args, msg)
                      /\ UNCHANGED <<device_sv, cache_manager>>
    IN
    /\ TapeHasRoomForOp
    /\ IF ~IsSupportedGate(name)
       THEN fails("The given operation is not supported by the simulator!")
       ELSE LET op_num_wires == lookup_gates(name)[1]
                op_num_params == lookup_gates(name)[2]
            IN  IF Len(wires) = 0 /\ Len(wires) # op_num_wires
                THEN fails("Invalid number of qubits")
                ELSE IF Len(params) # op_num_params
                THEN fails("Invalid number of parameters")
                ELSE IF ~isValidQubits(qubits_map, wires)
                THEN fails("Invalid device qubit")
                ELSE LET dev_wires == getDeviceWires(qubits_map, wires)
                     IN  \E k \in applyOperation(device_sv, name, dev_wires, inverse, params) :
                            IF ~k.ok
                            THEN fails("kernel: applyOperation")
                            ELSE /\ device_sv' = k.sv
                                 /\ IF tape_recording
                                    THEN cache_manager' =
                                             addOperation(cache_manager, name, params,
                                                          dev_wires, inverse)
                                    ELSE UNCHANGED cache_manager
                                 /\ res' = Ok("NamedOperation", args, <<>>)
    /\ hist' = Observe(hist, res')
    /\ UNCHANGED <<qubits_map, next_idx, tape_recording, obs_manager, device_shots>>

MatrixOperation(matrix, wires, inverse) ==
    LET args == <<Len(wires)>>
        fails(msg) == /\ res' = Fail("MatrixOperation", args, msg)
                      /\ UNCHANGED <<device_sv, cache_manager>>
    IN
    /\ TapeHasRoomForOp
    /\ IF Len(wires) = 0
       THEN fails("Invalid number of qubits")
       ELSE IF ~isValidQubits(qubits_map, wires)
       THEN fails("Invalid device qubit")
       ELSE LET dev_wires == getDeviceWires(qubits_map, wires)
            IN  /\ device_sv' = applyMultiQubitOp(device_sv, matrix, dev_wires, inverse)
                /\ IF tape_recording
                   THEN cache_manager' =
                            addOperation(cache_manager, "MatrixOp", <<>>, dev_wires, inverse)
                   ELSE UNCHANGED cache_manager
                /\ res' = Ok("MatrixOperation", args, <<>>)
    /\ hist' = Observe(hist, res')
    /\ UNCHANGED <<qubits_map, next_idx, tape_recording, obs_manager, device_shots>>

(***************************************************************************)
(* Observables.                                                            *)
(***************************************************************************)
Observable(id, wires) ==
    /\ Len(obs_manager) < MaxObs
    /\ IF Len(wires) > GetNumQubits
       THEN /\ res' = Fail("Observable", <<>>, "Invalid number of wires")
            /\ UNCHANGED obs_manager
       ELSE IF ~isValidQubits(qubits_map, wires)
       THEN /\ res' = Fail("Observable", <<>>, "Invalid given wires")
            /\ UNCHANGED obs_manager
       ELSE /\ obs_manager' = createNamedObs(obs_manager, id,
                                             getDeviceWires(qubits_map, wires))
            /\ res' = Ok("Observable", <<>>, <<Len(obs_manager)>>)
    /\ hist' = Observe(hist, res')
    /\ UNCHANGED <<device_sv, qubits_map, next_idx, tape_recording, cache_manager,
                   device_shots>>

TensorObservable(obs) ==
    /\ Len(obs_manager) < MaxObs
    /\ \E om \in createTensorProdObs(obs_manager, obs) :
          /\ obs_manager' = om
          /\ res' = IF om = obs_manager
                    THEN Fail("TensorObservable", <<Len(obs)>>, "ObsManager: createTensorProdObs")
                    ELSE Ok("TensorObservable", <<Len(obs)>>, <<Len(obs_manager)>>)
    /\ hist' = Observe(hist, res')
    /\ UNCHANGED <<device_sv, qubits_map, next_idx, tape_recording, cache_manager,
                   device_shots>>

HamiltonianObservable(coeffs, obs) ==
    /\ Len(obs_manager) < MaxObs
    /\ \E om \in createHamiltonianObs(obs_manager, coeffs, obs) :
          /\ obs_manager' = om
          /\ res' = IF om = obs_manager
                    THEN Fail("HamiltonianObservable", <<Len(coeffs), Len(obs)>>,
                              "ObsManager: createHamiltonianObs")
                    ELSE Ok("HamiltonianObservable", <<Len(coeffs), Len(obs)>>,
                            <<Len(obs_manager)>>)
    /\ hist' = Observe(hist, res')
    /\ UNCHANGED <<device_sv, qubits_map, next_idx, tape_recording, cache_manager,
                   device_shots>>

\* Expval and Var differ in the measurement kind they record and in the
\* kernel they call.
\* Expval and Var that record the measurement before validating the key.
ObsMeasurement_RecordsFirst(op, callee, obsKey) ==
    /\ TapeHasRoomForObs
    /\ IF tape_recording
       THEN cache_manager' = addObservable(cache_manager, obsKey, callee)
       ELSE UNCHANGED cache_manager
    /\ IF ~isValidObservables(obs_manager, obsKey)
       THEN res' = Fail(op, <<obsKey>>, "Invalid key for cached observables")
       ELSE res' = Ok(op, <<obsKey>>, <<>>)
    /\ hist' = Observe(hist, res')
    /\ UNCHANGED <<device_sv, qubits_map, next_idx, tape_recording, obs_manager,
                   device_shots>>

ObsMeasurement(op, callee, obsKey) ==
    /\ TapeHasRoomForObs
    /\ IF ~isValidObservables(obs_manager, obsKey)
       THEN /\ res' = Fail(op, <<obsKey>>, "Invalid key for cached observables")
            /\ UNCHANGED cache_manager
       ELSE /\ IF tape_recording
               THEN cache_manager' = addObservable(cache_manager, obsKey, callee)
               ELSE UNCHANGED cache_manager
            /\ res' = Ok(op, <<obsKey>>, <<>>)
    /\ hist' = Observe(hist, res')
    /\ UNCHANGED <<device_sv, qubits_map, next_idx, tape_recording, obs_manager,
                   device_shots>>

Expval(obsKey) == ObsMeasurement("Expval", "Expval", obsKey)

Var(obsKey) == ObsMeasurement("Var", "Var", obsKey)

(***************************************************************************)
(* Measurements<StateVectorT>: probabilities and samples.                  *)
(***************************************************************************)
Indices(sv) == 0 .. 2 ^ sv.n - 1

\* The basis states a sample can show: those of nonzero probability (any, of a
\* NaN vector).
Support(sv) == IF sv.nan THEN Indices(sv) ELSE {i \in Indices(sv) : sv.amp[i] # 0}

\* generate_samples(shots): the basis state of each shot.
SampleSet(sv, shots) == [1 .. shots -> Support(sv)]

\* The value of the bits of dev_wires in index i, first wire most significant.
RECURSIVE MarginalIdx(_, _, _)
MarginalIdx(i, n, dev_wires) ==
    IF dev_wires = <<>> THEN 0
    ELSE BitOf(i, n, dev_wires[Len(dev_wires)])
         + 2 * MarginalIdx(i, n, SubSeq(dev_wires, 1, Len(dev_wires) - 1))

RECURSIVE SumOver(_, _)
SumOver(f, S) ==
    IF S = {} THEN 0
    ELSE LET x == CHOOSE y \in S : TRUE IN f[x] + SumOver(f, S \ {x})

\* Probabilities over dev_wires as <<numerators, denominator>>; a zero
\* denominator stands for NaN.  Analytic when shots = 0, estimated from
\* `shots` samples otherwise.
ProbsOutcomes(sv, dev_wires, shots) ==
    LET k == Len(dev_wires)
        match(j) == {i \in Indices(sv) : MarginalIdx(i, sv.n, dev_wires) = j}
    IN  IF shots = 0
        THEN IF sv.nan
             THEN {<<[j \in 1 .. 2 ^ k |-> 0], 0>>}
             ELSE {<<[j \in 1 .. 2 ^ k |->
                        SumOver([i \in Indices(sv) |-> sv.amp[i] * sv.amp[i]], match(j - 1))],
                     Mass(sv.amp, sv.n)>>}
        ELSE {<<[j \in 1 .. 2 ^ k |->
                    Cardinality({s \in 1 .. shots : idxs[s] \in match(j - 1)})], shots>> :
                idxs \in SampleSet(sv, shots)}

AllWires(sv) == [i \in 1 .. sv.n |-> i - 1]

\* The flat (shots x wires) bit matrix gathered from the shots' basis states.
GatherBits(idxs, n, dev_wires) ==
    LET k == Len(dev_wires)
    IN  [p \in 1 .. Len(idxs) * k |->
            BitOf(idxs[((p - 1) \div k) + 1], n, dev_wires[((p - 1) % k) + 1])]

ReadOnly == hist' = Observe(hist, res') /\ UNCHANGED simState

State(size) ==
    /\ IF size # 2 ^ GetNumQubits
       THEN res' = Fail("State", <<size>>, "Invalid size for the pre-allocated state vector")
       ELSE res' = Ok("State", <<size>>, [i \in 1 .. size |-> device_sv.amp[i - 1]])
    /\ ReadOnly

Probs(size) ==
    /\ \E dv_probs \in ProbsOutcomes(device_sv, AllWires(device_sv), device_shots) :
          IF size # Len(dv_probs[1])
          THEN res' = Fail("Probs", <<size>>, "Invalid size for the pre-allocated probabilities")
          ELSE res' = Ok("Probs", <<size>>, Append(dv_probs[1], dv_probs[2]))
    /\ ReadOnly

\* Why PartialProbs(size, wires) throws, or "" when it does not.
PartialProbsError(size, wires) ==
    IF Len(wires) > GetNumQubits THEN "Invalid number of wires"
    ELSE IF ~isValidQubits(qubits_map, wires) THEN "Invalid given wires to measure"
    ELSE IF size # 2 ^ Len(wires)
    THEN "Invalid size for the pre-allocated partial-probabilities"
    ELSE ""

PartialProbs(size, wires) ==
    /\ IF PartialProbsError(size, wires) # ""
       THEN res' = Fail("PartialProbs", <<size>>, PartialProbsError(size, wires))
       ELSE \E dv_probs \in ProbsOutcomes(device_sv, getDeviceWires(qubits_map, wires),
                                          device_shots) :
               res' = Ok("PartialProbs", <<size>>, Append(dv_probs[1], dv_probs[2]))
    /\ ReadOnly

Sample(size, shots) ==
    /\ IF size # shots * GetNumQubits
       THEN res' = Fail("Sample", <<size, shots>>, "Invalid size for the pre-allocated samples")
       ELSE \E idxs \in SampleSet(device_sv, shots) :
               res' = Ok("Sample", <<size, shots>>,
                         GatherBits(idxs, device_sv.n, AllWires(device_sv)))
    /\ ReadOnly

PartialSample(size, wires, shots) ==
    /\ IF Len(wires) > GetNumQubits
       THEN res' = Fail("PartialSample", <<size, shots>>, "Invalid number of wires")
       ELSE IF ~isValidQubits(qubits_map, wires)
       THEN res' = Fail("PartialSample", <<size, shots>>, "Invalid given wires to measure")
       ELSE IF size # shots * Len(wires)
       THEN res' = Fail("PartialSample", <<size, shots>>,
                        "Invalid size for the pre-allocated partial-samples")
       ELSE \E idxs \in SampleSet(device_sv, shots) :
               res' = Ok("PartialSample", <<size, shots>>,
                         GatherBits(idxs, device_sv.n, getDeviceWires(qubits_map, wires)))
    /\ ReadOnly


(***************************************************************************)
(* Counts and PartialCounts.                                               *)
(***************************************************************************)
\* std::bitset::to_ulong of a bitset filled with basisState[idx++] = bit:
\* the bit stored first is bit 0.
RECURSIVE BitsetToUlong(_)
BitsetToUlong(bits) ==
    IF bits = <<>> THEN 0 ELSE Head(bits) + 2 * BitsetToUlong(Tail(bits))

ShotBits(gathered, k, shot) == SubSeq(gathered, (shot - 1) * k + 1, shot * k)

\* The loop over the shots: counts(basisState.to_ulong()) += 1.
CountShots(gathered, k, shots) ==
    [j \in 1 .. 2 ^ k |->
        Cardinality({s \in 1 .. shots : BitsetToUlong(ShotBits(gathered, k, s)) = j - 1})]

Counts(eigSize, cntSize, shots) ==
    LET numQubits == GetNumQubits
        numElements == 2 ^ numQubits
    IN
    /\ IF eigSize # numElements \/ cntSize # numElements
       THEN res' = Fail("Counts", <<numQubits, shots>>,
                        "Invalid size for the pre-allocated counts")
       ELSE \E idxs \in SampleSet(device_sv, shots) :
               LET li_samples == GatherBits(idxs, numQubits, AllWires(device_sv))
               IN  res' = Ok("Counts", <<numQubits, shots>> \o li_samples,
                             CountShots(li_samples, numQubits, shots))
    /\ ReadOnly

PartialCounts(eigSize, cntSize, wires, shots) ==
    LET numWires == Len(wires)
        numQubits == GetNumQubits
        numElements == 2 ^ numWires
    IN
    /\ IF numWires > numQubits
       THEN res' = Fail("PartialCounts", <<numWires, shots>>, "Invalid number of wires")
       ELSE IF ~isValidQubits(qubits_map, wires)
       THEN res' = Fail("PartialCounts", <<numWires, shots>>, "Invalid given wires to measure")
       ELSE IF eigSize # numElements \/ cntSize # numElements
       THEN res' = Fail("PartialCounts", <<numWires, shots>>,
                        "Invalid size for the pre-allocated partial-counts")
       ELSE \E idxs \in SampleSet(device_sv, shots) :
               LET gathered == GatherBits(idxs, numQubits, getDeviceWires(qubits_map, wires))
               IN  res' = Ok("PartialCounts", <<numWires, shots>> \o gathered,
                             CountShots(gathered, numWires, shots))
    /\ ReadOnly

(***************************************************************************)
(* Measure.                                                                *)
(***************************************************************************)
\* bool mres = draw > probs[0], with draw = u / DrawDen and probs[0] = num / den
\* (den = 0: NaN, every comparison with it is false).
DrawExceeds(u, num, den) == den # 0 /\ u * den > DrawDen * num

\* The state after zeroing the entries whose bit of wire `w` is k and dividing
\* by the norm of what is left: NaN everywhere when nothing is left.
Collapse(sv, w, k) ==
    LET zeroed == [i \in Indices(sv) |-> IF BitOf(i, sv.n, w) = k THEN 0 ELSE sv.amp[i]]
        total == Mass(zeroed, sv.n)
    IN  IF sv.nan THEN sv
        ELSE IF total = 0
        THEN [sv EXCEPT !.nan = TRUE, !.amp = zeroed]
        ELSE [sv EXCEPT !.amp = Reduce(zeroed, sv.n)]

Measure(wire, u) ==
    LET wires == <<wire>>
    IN
    /\ IF PartialProbsError(2, wires) # ""
       THEN /\ res' = Fail("Measure", <<wire, u>>, PartialProbsError(2, wires))
            /\ UNCHANGED device_sv
       ELSE LET dev_wires == getDeviceWires(qubits_map, wires)
            IN  \E probs \in ProbsOutcomes(device_sv, dev_wires, device_shots) :
                   LET mres == DrawExceeds(u, probs[1][1], probs[2])
                       k == IF mres THEN 0 ELSE 1
                   IN  /\ device_sv' = Collapse(device_sv, dev_wires[1], k)
                       /\ res' = Ok("Measure", <<wire, u>>, <<IF mres THEN 1 ELSE 0>>)
    /\ hist' = Observe(hist, res')
    /\ UNCHANGED <<qubits_map, next_idx, tape_recording, cache_manager, obs_manager,
                   device_shots>>

(***************************************************************************)
(* Gradient.  gradients is the sequence of the sizes of the caller's       *)
(* buffers.                                                                *)
(***************************************************************************)
\* num_train_params that ignores the recorded parameters.
NumTrainParams_ListOnly(c, trainParams) == Len(trainParams)

NumTrainParams(c, trainParams) ==
    IF trainParams = <<>> THEN getNumParams(c) ELSE Len(trainParams)

JacSize(c, trainParams) == NumTrainParams(c, trainParams) * getNumObservables(c)

\* std::any_of in place of std::all_of.
AllExpval_Any(c) == \E i \in 1 .. Len(c.obs_callees) : c.obs_callees[i] = "Expval"

AllExpval(c) == \A i \in 1 .. Len(c.obs_callees) : c.obs_callees[i] = "Expval"

Gradient(gradients, trainParams) ==
    LET args == <<Len(gradients), Len(trainParams)>>
        num_observables == getNumObservables(cache_manager)
        num_train_params == NumTrainParams(cache_manager, trainParams)
        jac_size == JacSize(cache_manager, trainParams)
    IN
    /\ IF jac_size = 0
       THEN res' = Ok("Gradient", args, <<0>>)
       ELSE IF Len(gradients) # num_observables
       THEN res' = Fail("Gradient", args, "Invalid number of pre-allocated gradients")
       ELSE IF ~AllExpval(cache_manager)
       THEN res' = Fail("Gradient", args, "Unsupported measurements to compute gradient")
       ELSE IF \E i \in 1 .. num_observables : num_train_params > gradients[i]
       THEN res' = Fail("Gradient", args,
                        "Assertion: num_train_params <= gradients[obs_idx].size()")
       ELSE res' = Ok("Gradient", args, <<jac_size>>)
    /\ ReadOnly

(***************************************************************************)
(* The calls a client can make.                                            *)
(***************************************************************************)
GateNames == DOMAIN simulator_gate_info \cup {"NoSuchGate"}
ParamLists == {<<>>, <<1>>, <<2>>}
Matrices == {<<0, 1, 1, 0>>, <<1, 1, 1, -1>>}
BufSizes == {2 ^ k : k \in 0 .. MaxQubits}
ObsKeys == 0 .. MaxObs
KeyLists == SeqsUpTo(0 .. MaxObs - 1, 2)
CoeffLists == SeqsUpTo({1, 2}, 2)
Shots == 0 .. MaxShots
Draws == 0 .. DrawDen
GradientBuffers == {[i \in 1 .. m |-> size] : m \in 0 .. MaxTapeObs, size \in {1, 2}}
TrainParamLists == {<<>>, <<0>>, <<0, 1>>}

QubitCalls ==
    \/ AllocateQubit
    \/ \E k \in 0 .. MaxQubits : AllocateQubits(k)
    \/ \E q \in QubitIds : ReleaseQubit(q)
    \/ ReleaseAllQubits

TapeCalls ==
    \/ StartTapeRecording
    \/ StopTapeRecording
    \/ CacheManagerInfo

NamedOperationCalls(names, paramLists, wireLists, inverses) ==
    \E name \in names, params \in paramLists, wires \in wireLists, inverse \in inverses :
        NamedOperation(name, params, wires, inverse)

MatrixOperationCalls(matrices, wireLists, inverses) ==
    \E matrix \in matrices, wires \in wireLists, inverse \in inverses :
        MatrixOperation(matrix, wires, inverse)

ObservableCalls(ids, wireLists) ==
    \E id \in ids, wires \in wireLists : Observable(id, wires)

TensorObservableCalls(keyLists) == \E obs \in keyLists : TensorObservable(obs)

HamiltonianObservableCalls(coeffLists, keyLists) ==
    \E coeffs \in coeffLists, obs \in keyLists : HamiltonianObservable(coeffs, obs)

ExpvalCalls(keys) == \E obsKey \in keys : Expval(obsKey)

VarCalls(keys) == \E obsKey \in keys : Var(obsKey)

GradientCalls(buffers, paramLists) ==
    \E gradients \in buffers, trainParams \in paramLists :
        Gradient(gradients, trainParams)

ReadCalls(sizes, wireLists, shotCounts) ==
    \/ \E size \in sizes : State(size)
    \/ \E size \in sizes : Probs(size)
    \/ \E size \in sizes, wires \in wireLists : PartialProbs(size, wires)
    \/ \E size \in sizes, shots \in shotCounts : Sample(size, shots)
    \/ \E size \in sizes, wires \in wireLists, shots \in shotCounts :
          PartialSample(size, wires, shots)

CountsCalls(sizes, wireLists, shotCounts) ==
    \/ \E eigSize \in sizes, cntSize \in sizes, shots \in shotCounts :
          Counts(eigSize, cntSize, shots)
    \/ \E eigSize \in sizes, cntSize \in sizes, wires \in wireLists, shots \in shotCounts :
          PartialCounts(eigSize, cntSize, wires, shots)

MeasureCalls(wireSet) == \E wire \in wireSet, u \in Draws : Measure(wire, u)

SetDeviceShotsCalls == \E shots \in Shots : SetDeviceShots(shots)

(***************************************************************************)
(* The simulator under every call.                                         *)
(***************************************************************************)
Next ==
    \/ QubitCalls
    \/ TapeCalls
    \/ NamedOperationCalls(GateNames, ParamLists, WireLists, BOOLEAN)
    \/ MatrixOperationCalls(Matrices, SeqsUpTo(QubitIds, 1), BOOLEAN)
    \/ ObservableCalls({"PauliZ", "Hermitian"}, WireLists)
    \/ TensorObservableCalls(KeyLists)
    \/ HamiltonianObservableCalls(CoeffLists, KeyLists)
    \/ ExpvalCalls(ObsKeys)
    \/ VarCalls(ObsKeys)
    \/ GradientCalls(GradientBuffers, TrainParamLists)
    \/ ReadCalls(BufSizes, WireLists, Shots)
    \/ CountsCalls(BufSizes, WireLists, Shots)
    \/ MeasureCalls(QubitIds)
    \/ SetDeviceShotsCalls

Spec == Init /\ [][Next]_vars

(***************************************************************************)
(* The register: allocation, release, and every call that replaces the     *)
(* state vector.                                                           *)
(***************************************************************************)
NextQubits ==
    \/ QubitCalls
    \/ NamedOperationCalls({"PauliX", "Hadamard"}, {<<>>}, SeqsUpTo(QubitIds, 1), {FALSE})
    \/ MeasureCalls(QubitIds)

SpecQubits == Init /\ [][NextQubits]_vars

(***************************************************************************)
(* Measurement: basis states, superpositions and entangled states,         *)
(* measured with analytic or sampled probabilities.                        *)
(***************************************************************************)
NextMeasure ==
    \/ AllocateQubit
    \/ ReleaseAllQubits
    \/ NamedOperationCalls({"PauliX", "Hadamard", "CNOT"}, {<<>>}, WireLists, {FALSE})
    \/ MeasureCalls(QubitIds)
    \/ SetDeviceShotsCalls

SpecMeasure == Init /\ [][NextMeasure]_vars

(***************************************************************************)
(* The tape: recording, and the operations it records.                     *)
(***************************************************************************)
NextTape ==
    \/ AllocateQubit
    \/ TapeCalls
    \/ NamedOperationCalls({"PauliX", "RY", "NoSuchGate"}, {<<>>, <<2>>},
                           SeqsUpTo(QubitIds, 1), {FALSE})
    \/ MatrixOperationCalls({<<0, 1, 1, 0>>}, {<<>>, <<0>>}, {FALSE})

SpecTape == Init /\ [][NextTape]_vars

(***************************************************************************)
(* Gate arities: named operations over every wire list of up to two        *)
(* qubits, recorded or not.                                                *)
(***************************************************************************)
NextArity ==
    \/ AllocateQubit
    \/ StartTapeRecording
    \/ StopTapeRecording
    \/ NamedOperationCalls({"PauliX", "RY", "CNOT", "NoSuchGate"}, {<<>>, <<2>>},
                           WireLists, {FALSE})

SpecArity == Init /\ [][NextArity]_vars

(***************************************************************************)
(* Counts: basis states and superpositions of up to MaxQubits qubits,      *)
(* sampled and counted over every wire list; observables of every kind,    *)
(* created and measured.                                                   *)
(***************************************************************************)
NextCounts ==
    \/ AllocateQubit
    \/ NamedOperationCalls({"PauliX", "Hadamard"}, {<<>>}, SeqsUpTo(QubitIds, 1), {FALSE})
    \/ CountsCalls(BufSizes, WireLists, Shots)
    \/ ObservableCalls({"PauliZ"}, {<<0>>})
    \/ TensorObservableCalls({<<>>, <<0>>, <<1>>})
    \/ HamiltonianObservableCalls({<<1>>, <<1, 2>>}, {<<0>>})
    \/ ExpvalCalls(ObsKeys)
    \/ VarCalls(ObsKeys)

SpecCounts == Init /\ [][NextCounts]_vars

(***************************************************************************)
(* Failing calls: every call that can fail on its arguments, on a          *)
(* one-qubit circuit that is being recorded or not.                        *)
(***************************************************************************)
NextFrame ==
    \/ AllocateQubit
    \/ StartTapeRecording
    \/ StopTapeRecording
    \/ NamedOperationCalls({"PauliX"}, {<<>>}, {<<0>>}, {FALSE})
    \/ ObservableCalls({"PauliZ"}, {<<0>>})
    \/ ExpvalCalls({0, MaxObs})
    \/ VarCalls({0, MaxObs})
    \/ GradientCalls({<<>>, <<1>>, <<2>>, <<2, 2>>}, {<<0>>, <<0, 1>>})
    \/ ReadCalls({1, 2}, {<<>>, <<0>>, <<1>>}, {1})
    \/ CountsCalls({1, 2}, {<<>>, <<0>>, <<1>>}, {1})
    \/ MeasureCalls({0, 1})

SpecFrame == Init /\ [][NextFrame]_vars

(***************************************************************************)
(* The gradient: a recorded circuit on one qubit, its measurements, and    *)
(* Gradient over the caller's buffers and trainable parameters.            *)
(***************************************************************************)
NextGradient ==
    \/ AllocateQubit
    \/ StartTapeRecording
    \/ StopTapeRecording
    \/ NamedOperationCalls({"PauliX", "RY"}, {<<>>, <<2>>}, {<<0>>}, {FALSE})
    \/ ObservableCalls({"PauliZ"}, {<<0>>})
    \/ ExpvalCalls({0, MaxObs})
    \/ VarCalls({0, MaxObs})
    \/ GradientCalls(GradientBuffers, TrainParamLists)

SpecGradient == Init /\ [][NextGradient]_vars


(***************************************************************************)
(* Properties.                                                             *)
(***************************************************************************)
\* C1: tape recording is a two-state machine.  A StartTapeRecording call made
\* while Idle succeeds, sets the flag and leaves the tape empty; made while
\* Recording it fails and leaves the flag and the tape as they were.  A
\* StopTapeRecording call made while Recording succeeds and clears the flag;
\* made while Idle it fails and leaves the flag and the tape as they were.
C1_TapeStateMachine ==
    [][/\ res'.op = "StartTapeRecording" =>
            IF tape_recording
            THEN /\ ~res'.ok
                 /\ res'.err = "Cannot re-activate the cache manager"
                 /\ UNCHANGED <<tape_recording, cache_manager>>
            ELSE /\ res'.ok
                 /\ tape_recording'
                 /\ cache_manager' = EmptyCache
       /\ res'.op = "StopTapeRecording" =>
            IF tape_recording
            THEN /\ res'.ok
                 /\ ~tape_recording'
            ELSE /\ ~res'.ok
                 /\ res'.err = "Cannot stop an already stopped cache manager"
                 /\ UNCHANGED <<tape_recording, cache_manager>>]_vars

\* A second StartTapeRecording has failed on a tape that holds an operation and
\* a measurement.
C1_Witness ==
    /\ res.op = "StartTapeRecording"
    /\ ~res.ok
    /\ tape_recording
    /\ Len(cache_manager.ops) > 0
    /\ Len(cache_manager.obs_keys) > 0

\* C2: the number of operations on the tape, which CacheManagerInfo reports,
\* is the number of NamedOperation and MatrixOperation calls that succeeded
\* since the last successful StartTapeRecording and before the following
\* StopTapeRecording; operations applied while Idle are not counted.
C2_OperationCount ==
    /\ getNumOperations(cache_manager) = hist.ops
    /\ res.op = "CacheManagerInfo" => res.out[1] = hist.ops

\* CacheManagerInfo reports two operations after the recording was stopped and
\* a further operation was applied.
C2_Witness ==
    /\ res.op = "CacheManagerInfo"
    /\ res.out[1] = 2
    /\ ~hist.rec
    /\ device_sv.amp # NewStateVector(device_sv.n).amp


(***************************************************************************)
(* Gradient's preconditions.  After a Gradient call the tape is the tape   *)
(* the call read, and res.args is <<number of buffers, number of trainable *)
(* parameters listed>>.                                                    *)
(***************************************************************************)
TapeHasVar == \E i \in 1 .. Len(cache_manager.obs_callees) : cache_manager.obs_callees[i] = "Var"

RecordedObservables == Len(cache_manager.obs_keys)

\* The trainable parameters of the call: those listed, or every recorded
\* parameter when none is listed.
TrainableOfCall == IF res.args[2] = 0 THEN cache_manager.num_params ELSE res.args[2]

JacobianOfCall == TrainableOfCall * RecordedObservables

UnsupportedMeasurement ==
    ~res.ok /\ res.err = "Unsupported measurements to compute gradient"

InvalidGradientArity ==
    ~res.ok /\ res.err = "Invalid number of pre-allocated gradients"

\* C3 as stated: Gradient fails with UnsupportedMeasurement whenever the tape
\* holds a Var entry, whatever the tape and the trainable parameters.
C3_Original == (res.op = "Gradient" /\ TapeHasVar) => UnsupportedMeasurement

\* C3, amended: Gradient fails with UnsupportedMeasurement whenever the tape
\* holds a Var entry, the Jacobian is not empty and there are as many buffers
\* as recorded observables.
C3_VarRejected ==
    (res.op = "Gradient" /\ TapeHasVar /\ JacobianOfCall # 0
        /\ res.args[1] = RecordedObservables)
    => UnsupportedMeasurement

\* Gradient has rejected a tape that holds an Expval and a Var entry.
C3_Witness ==
    /\ res.op = "Gradient"
    /\ UnsupportedMeasurement
    /\ TapeHasVar
    /\ \E i \in 1 .. RecordedObservables : cache_manager.obs_callees[i] = "Expval"

\* C8 as stated: Gradient fails with InvalidArity whenever the number of
\* buffers differs from the number of recorded observables, and it returns
\* without computing only when the tape holds no parameter and no observable.
C8_Original ==
    res.op = "Gradient" =>
        /\ res.args[1] # RecordedObservables => InvalidGradientArity
        /\ (res.ok /\ res.out = <<0>>) =>
              (cache_manager.num_params = 0 /\ RecordedObservables = 0)

\* C8, amended: Gradient fails with InvalidArity whenever the number of
\* buffers differs from the number of recorded observables and the Jacobian
\* is not empty; it returns without computing exactly when the Jacobian is
\* empty, whatever the number of buffers.
C8_BuffersChecked ==
    res.op = "Gradient" =>
        /\ (res.args[1] # RecordedObservables /\ JacobianOfCall # 0) => InvalidGradientArity
        /\ (res.ok /\ res.out = <<0>>) <=> JacobianOfCall = 0

\* Gradient has rejected the buffers of a call that lists a trainable
\* parameter on a tape that recorded none.
C8_Witness ==
    /\ res.op = "Gradient"
    /\ InvalidGradientArity
    /\ cache_manager.num_params = 0
    /\ res.args[2] > 0


(***************************************************************************)
(* NamedOperation's arity checks.  After a NamedOperation call res.args is *)
(* <<name, number of wires, number of parameters>>.                        *)
(***************************************************************************)
ArityMismatch(r) ==
    /\ r.op = "NamedOperation"
    /\ IsSupportedGate(r.args[1])
    /\ \/ r.args[2] # simulator_gate_info[r.args[1]][1]
       \/ r.args[3] # simulator_gate_info[r.args[1]][2]

InvalidArity(r) ==
    /\ ~r.ok
    /\ r.err \in {"Invalid number of qubits", "Invalid number of parameters"}

\* C4: a NamedOperation call on allocated qubits whose number of wires or of
\* parameters differs from the gate's declared arity fails with InvalidArity
\* and changes neither the state vector nor the tape.
C4_ArityChecked ==
    [][\A name \in DOMAIN simulator_gate_info, params \in ParamLists, wires \in WireLists :
          (/\ NamedOperation(name, params, wires, FALSE)
           /\ isValidQubits(qubits_map, wires)
           /\ ArityMismatch(res'))
          => (InvalidArity(res') /\ UNCHANGED <<device_sv, cache_manager>>)]_vars


(***************************************************************************)
(* Counts.  After a Counts or PartialCounts call res.args is               *)
(* <<bits per shot, shots>> followed by the gathered bits, shot by shot,   *)
(* and res.out is the counts buffer.                                       *)
(***************************************************************************)
\* The bits read as a big-endian integer: the first bit is the most
\* significant.
RECURSIVE BigEndianValue(_)
BigEndianValue(bits) ==
    IF bits = <<>> THEN 0
    ELSE bits[Len(bits)] + 2 * BigEndianValue(SubSeq(bits, 1, Len(bits) - 1))

GatheredOfCall == SubSeq(res.args, 3, Len(res.args))

\* C5: after Counts or PartialCounts, counts[i] is the number of shots whose
\* gathered bits, read big-endian (first queried wire most significant), have
\* the value i, and the counts add up to the number of shots.
C5_BigEndianCounts ==
    (res.op \in {"Counts", "PartialCounts"} /\ res.ok) =>
        /\ \A j \in 1 .. Len(res.out) :
              res.out[j] =
                  Cardinality({sh \in 1 .. res.args[2] :
                      BigEndianValue(ShotBits(GatheredOfCall, res.args[1], sh)) = j - 1})
        /\ SeqSum(res.out) = res.args[2]

(***************************************************************************)
(* Measure.  After a Measure call res.args is <<qubit, draw>> and res.out  *)
(* is <<outcome>>.                                                         *)
(***************************************************************************)
\* C6: a Measure that immediately follows a Measure of the same qubit returns
\* the same outcome, whatever the draw.
C6_CollapseIdempotent ==
    [][(/\ res.op = "Measure" /\ res.ok
        /\ res'.op = "Measure" /\ res'.ok
        /\ res'.args[1] = res.args[1])
       => res'.out = res.out]_vars

\* C11: with p0 the probability of outcome 0 on the measured qubit before the
\* call and u the draw, Measure returns 1 when u > p0, 0 when u < p0, and 1
\* when u = p0.
C11_TieBreak ==
    [][(res'.op = "Measure" /\ res'.ok)
       => \E probs \in ProbsOutcomes(device_sv,
                                     getDeviceWires(qubits_map, <<res'.args[1]>>),
                                     device_shots) :
             LET u == res'.args[2]
                 num == probs[1][1]
                 den == probs[2]
             IN  den # 0 =>
                    res'.out[1] = (IF u * den >= DrawDen * num THEN 1 ELSE 0)]_vars

\* C12: a Measure that returns an outcome leaves a state vector of total
\* probability 1, never the quotient by a zero norm.
C12_NoDegenerateRenormalization ==
    (res.op = "Measure" /\ res.ok) => ~device_sv.nan

(***************************************************************************)
(* The register.                                                           *)
(***************************************************************************)
\* C7: the live qubit ids map one-to-one onto the wires 0 .. GetNumQubits-1.
C7_Bijection ==
    /\ Cardinality(DOMAIN qubits_map) = GetNumQubits
    /\ \A w \in 0 .. GetNumQubits - 1 :
          Cardinality({q \in DOMAIN qubits_map : qubits_map[q] = w}) = 1

\* C10: GetNumQubits is the number of qubits allocated since the last
\* ReleaseAllQubits (or construction); AllocateQubits returns as many ids as
\* were requested, and AllocateQubits(0) changes nothing; after
\* ReleaseAllQubits the count is 0.
C10_QubitCount ==
    /\ [](/\ GetNumQubits = hist.allocated
          /\ res.op = "AllocateQubits" => Len(res.out) = res.args[1]
          /\ res.op = "ReleaseAllQubits" => GetNumQubits = 0)
    /\ [][(res'.op = "AllocateQubits" /\ res'.args[1] = 0) => UNCHANGED simState]_vars

\* AllocateQubits has grown a register of one qubit, whose id was released, to
\* two qubits.
C10_Witness ==
    /\ res.op = "AllocateQubits"
    /\ res.args[1] = 1
    /\ GetNumQubits = 2
    /\ Cardinality(DOMAIN qubits_map) = 1

(***************************************************************************)
(* Failing calls.                                                          *)
(***************************************************************************)
ValidatingCalls ==
    {"Expval", "Var", "Probs", "PartialProbs", "Sample", "PartialSample", "Counts",
     "PartialCounts", "State", "Measure", "Gradient", "StartTapeRecording",
     "StopTapeRecording"}

\* C9: a call among the validating calls that fails leaves the qubit map, the
\* state vector, the recording flag, the tape and the observables as they
\* were.
C9_FailureLeavesState ==
    [][(res'.op \in ValidatingCalls /\ ~res'.ok) => UNCHANGED simState]_vars

\* Expval or Var has failed on an invalid key while recording a tape that
\* holds a measurement.
C9_Witness ==
    /\ res.op \in {"Expval", "Var"}
    /\ ~res.ok
    /\ tape_recording
    /\ Len(cache_manager.obs_keys) = 1

====
